---- MODULE Spec2Model ----
(***************************************************************************)
(* State-synchronisation core of ssh-key-manager (internal/sync):          *)
(* the SyncManager of incremental.go (checksum snapshots, change           *)
(* detection, conflict resolution, change application).                    *)
(*                                                                         *)
(* Representation:                                                         *)
(*  - a models.Key is a record; Go zero values are "", 0, FALSE and <<>>;  *)
(*    time.Time values are integers, 0 being the zero time;                *)
(*  - a []models.Key or []KeyChange slice is a sequence;                   *)
(*  - a map[string]string is a function whose DOMAIN is the key set;       *)
(*  - ComputeChecksum is hex(sha256(json(fields))): the hash is modelled   *)
(*    as an injective encoding of the serialised fields, i.e. the tuple of *)
(*    those fields, and the empty checksum string "" is the empty tuple;   *)
(*  - Go's map iteration order is unspecified, so every loop that ranges   *)
(*    over a map and appends to a slice yields any order of its items;     *)
(*  - KeyChange.Timestamp (time.Now()) is not modelled;                     *)
(*  - the SyncHistory ledger of history.go: a SyncHistoryEntry is a record  *)
(*    of its ID, Timestamp, Direction, ChangesApplied, ConflictsFound and   *)
(*    Success (DeviceID, Error, Changes and Duration play no part in any    *)
(*    ledger operation); the history file is absent, unparsable, or a JSON  *)
(*    array, modelled as a sequence of tuples, one per serialised entry;    *)
(*  - sort.Slice is not stable: entries with equal timestamps come out in   *)
(*    any order;                                                            *)
(*  - the YAML key store of storage/yaml/store.go: the configuration file  *)
(*    is absent, unreadable, or a list of encoded records, each a sequence *)
(*    of (yaml tag, value) pairs; a nil and an empty slice are both <<>>.  *)
(***************************************************************************)
EXTENDS Integers, Sequences, FiniteSets, TLC

\* ---------------------------------------------------------------- bounds
\* number of distinct record names in play
MaxNames == 2
\* longest change list handed to ApplyChanges as a free input
MaxChanges == 2
\* last-updated timestamps range over 1..MaxTime
MaxTime == 2
\* the maximum a ledger is configured with
MaxRetained == 2

\* record names are never empty (cli/helpers.go: "key name is required"),
\* so "" is the name of the zero Key only
NamePool == <<"work", "old", "home", "ci">>
Names == {NamePool[i] : i \in 1..MaxNames}
Fingerprints == {"abc", "xyz"}
Times == 1..MaxTime

\* ------------------------------------------------------------ data model
\* models.Key{} : the zero value of the record type
ZeroKey ==
    [Name |-> "", Type |-> "", Path |-> "", PubPath |-> "", Tags |-> <<>>,
     Comment |-> "", CreatedAt |-> 0, UpdatedAt |-> 0, Fingerprint |-> "",
     Installed |-> FALSE]

\* a stored record: name, fingerprint and last-updated time vary
NewKey(name, fp, updatedAt) ==
    [ZeroKey EXCEPT !.Name = name, !.Type = "ed25519", !.Path = "keys",
                    !.PubPath = "keys.pub", !.CreatedAt = 1,
                    !.UpdatedAt = updatedAt, !.Fingerprint = fp,
                    !.Installed = TRUE]

\* the records a key store can hand to the sync core
Keys == {NewKey(n, f, t) : n \in Names, f \in Fingerprints, t \in Times}

\* records of the local record set (the timestamp plays no part in snapshots)
StoreKeys == {k \in Keys : k.UpdatedAt = MaxTime}

\* record lists with unique names, as the key store keeps them
UniqueNames(keys) ==
    \A i, j \in DOMAIN keys : i # j => keys[i].Name # keys[j].Name

KeyLists ==
    {keys \in UNION {[1..n -> StoreKeys] : n \in 0..MaxNames} : UniqueNames(keys)}

ChangeTypeCreate == "create"
ChangeTypeUpdate == "update"
ChangeTypeDelete == "delete"

StrategyLocalWins == "local"
StrategyRemoteWins == "remote"
StrategyNewerWins == "newer"
StrategyManual == "manual"

deviceID == "dev1"

KeyChange(type, key, checksum) ==
    [Type |-> type, Key |-> key, DeviceID |-> deviceID, Checksum |-> checksum]

\* -------------------------------------------------------------- helpers
\* all orders in which the elements of a finite set can be visited
Perms(S) ==
    {f \in [1..Cardinality(S) -> S] : \A i, j \in DOMAIN f : i # j => f[i] # f[j]}

\* localMap := make(map); for _, key := range keys { localMap[key.Name] = key }
\* (a later element overwrites an earlier one of the same name)
KeyMap(keys) ==
    LET names == {keys[i].Name : i \in DOMAIN keys}
        last(n) == CHOOSE i \in DOMAIN keys :
                      /\ keys[i].Name = n
                      /\ \A j \in DOMAIN keys : keys[j].Name = n => j <= i
    IN  [n \in names |-> keys[last(n)]]

\* m[name] for a Go map of records: the zero Key when the name is absent
Lookup(m, name) == IF name \in DOMAIN m THEN m[name] ELSE ZeroKey

\* ------------------------------------------------------------ checksum
\* faulty variant: the installed flag is serialised too
ComputeChecksum_WithInstalled(key) ==
    <<key.Name, key.Type, key.Fingerprint, key.Path, key.Comment, key.Tags,
      key.CreatedAt, key.Installed>>

ComputeChecksum(key) ==
    <<key.Name, key.Type, key.Fingerprint, key.Path, key.Comment, key.Tags,
      key.CreatedAt>>

\* the checksums a snapshot can hold for a name
ChecksumsOf(name) == {ComputeChecksum(k) : k \in {x \in Keys : x.Name = name}}

\* the checksum mappings a remote party can report
RemoteMaps ==
    UNION {{m \in [S -> UNION {ChecksumsOf(n) : n \in S}] :
               \A n \in S : m[n] \in ChecksumsOf(n)} : S \in SUBSET Names}

VARIABLES
    localState,     \* sm.localState.KeyChecksums
    remoteState,    \* sm.remoteState.KeyChecksums
    localKeys,      \* the caller's local record set (cfg.Keys)
    changes,        \* the change list the latest DetectChanges returned
    phase,          \* where the caller is in a detect/apply/snapshot pass
    inKeys,         \* ApplyChanges on free inputs: the localKeys argument
    inChanges,      \* ApplyChanges on free inputs: the changes argument
    outKeys,        \* the slices returned by successive ApplyChanges calls
    conflict,       \* the *ConflictResolution handed to ResolveConflict
    resolved,       \* <<the record ResolveConflict returned>>, <<>> before
    remoteKeys,     \* DetectConflicts: the remote record set
    strategy,       \* sm.strategy
    conflicts,      \* the slice the latest DetectConflicts returned
    given,          \* the record lists handed to successive UpdateLocalState calls
    recA,           \* ComputeChecksum on free inputs: one record
    recB,           \* ComputeChecksum on free inputs: a copy of it, edited
    sums,           \* <<ComputeChecksum(recA), ComputeChecksum(recB)>>, <<>> before
    entries,        \* sh.entries
    maxEntries,     \* sh.maxEntries
    file,           \* the history file at sh.historyFile
    ret,            \* the latest call on the ledger and what it returned
    peers,          \* two ledgers on one location: each process's position,
                    \* the list it loaded and its sh.entries
    writers,        \* the processes whose Add wrote the file, in that order
    runs,           \* the runs of `sync resolve` so far, each with its outcome
    configFile,     \* the YAML configuration file the key store reads and writes
    cfgKeys,        \* m.config.Keys, as the Manager last loaded it
    call            \* the latest call on the Manager's key store and its result

syncVars == <<localState, remoteState, localKeys, changes, phase>>
applyVars == <<inKeys, inChanges, outKeys>>
resolveVars == <<conflict, resolved>>
conflictVars == <<remoteKeys, strategy, conflicts>>
snapshotVars == <<given>>
checksumVars == <<recA, recB, sums>>
ledgerVars == <<entries, maxEntries, file, ret>>
raceVars == <<peers, writers>>
cliVars == <<runs>>
storeVars == <<configFile, cfgKeys, call>>
otherVars == <<cliVars, storeVars>>
restVars == <<snapshotVars, checksumVars, ledgerVars, raceVars, otherVars>>
vars == <<syncVars, applyVars, resolveVars, conflictVars, restVars>>

\* ------------------------------------------------------- SyncManager
\* faulty variant: an incremental update that keeps the entries of the
\* earlier snapshot
SnapshotOf_KeepsOld(keys) ==
    LET m == KeyMap(keys)
    IN  [n \in DOMAIN m \cup DOMAIN localState |->
            IF n \in DOMAIN m THEN ComputeChecksum(m[n]) ELSE localState[n]]

\* the map UpdateLocalState builds
SnapshotOf(keys) ==
    LET m == KeyMap(keys) IN [n \in DOMAIN m |-> ComputeChecksum(m[n])]

\* faulty variant: the checksum comparison is dropped
LocalChangeNames_NoCompare == DOMAIN localState

\* first loop of DetectChanges: the names it appends a change for
LocalChangeNames ==
    {n \in DOMAIN localState :
        n \notin DOMAIN remoteState \/ localState[n] # remoteState[n]}

\* first loop of DetectChanges: the change appended for such a name
LocalChange(name, localMap) ==
    IF name \notin DOMAIN remoteState
    THEN KeyChange(ChangeTypeCreate, Lookup(localMap, name), localState[name])
    ELSE KeyChange(ChangeTypeUpdate, Lookup(localMap, name), localState[name])

\* second loop of DetectChanges: the names it appends a change for
DeleteNames == {n \in DOMAIN remoteState : n \notin DOMAIN localState}

\* faulty variant: the Delete carries the checksum it is deleting
DeleteChange_KeepsChecksum(name) ==
    KeyChange(ChangeTypeDelete, [ZeroKey EXCEPT !.Name = name], remoteState[name])

\* second loop of DetectChanges: the change appended for such a name
DeleteChange(name) ==
    KeyChange(ChangeTypeDelete, [ZeroKey EXCEPT !.Name = name], <<>>)

\* faulty variant: the loop over the remote mapping runs first
DetectChangesResults_DeletesFirst(keys) ==
    LET localMap == KeyMap(keys)
    IN  {[i \in 1..Len(de) |-> DeleteChange(de[i])]
            \o [i \in 1..Len(lo) |-> LocalChange(lo[i], localMap)] :
         lo \in Perms(LocalChangeNames), de \in Perms(DeleteNames)}

\* every list DetectChanges(keys) can return
DetectChangesResults(keys) ==
    LET localMap == KeyMap(keys)
    IN  {[i \in 1..Len(lo) |-> LocalChange(lo[i], localMap)]
            \o [i \in 1..Len(de) |-> DeleteChange(de[i])] :
         lo \in Perms(LocalChangeNames), de \in Perms(DeleteNames)}

\* faulty variant: Create only inserts an absent name, Update only replaces a
\* present one
RECURSIVE ApplyLoop_Strict(_, _, _)
ApplyLoop_Strict(keyMap, chs, n) ==
    IF n = 0 THEN keyMap
    ELSE LET m == ApplyLoop_Strict(keyMap, chs, n - 1)
             c == chs[n]
         IN  IF \/ c.Type = ChangeTypeCreate /\ c.Key.Name \notin DOMAIN m
                \/ c.Type = ChangeTypeUpdate /\ c.Key.Name \in DOMAIN m
             THEN [x \in DOMAIN m \cup {c.Key.Name} |->
                      IF x = c.Key.Name THEN c.Key ELSE m[x]]
             ELSE IF c.Type = ChangeTypeDelete
             THEN [x \in DOMAIN m \ {c.Key.Name} |-> m[x]]
             ELSE m

\* faulty variant: the changes are processed from the last to the first
RECURSIVE ApplyLoop_Reversed(_, _, _)
ApplyLoop_Reversed(keyMap, chs, n) ==
    IF n = 0 THEN keyMap
    ELSE LET m == ApplyLoop_Reversed(keyMap, chs, n - 1)
             c == chs[Len(chs) - n + 1]
         IN  IF c.Type \in {ChangeTypeCreate, ChangeTypeUpdate}
             THEN [x \in DOMAIN m \cup {c.Key.Name} |->
                      IF x = c.Key.Name THEN c.Key ELSE m[x]]
             ELSE IF c.Type = ChangeTypeDelete
             THEN [x \in DOMAIN m \ {c.Key.Name} |-> m[x]]
             ELSE m

\* keyMap after the loop of ApplyChanges has processed chs[1..n]
RECURSIVE ApplyLoop(_, _, _)
ApplyLoop(keyMap, chs, n) ==
    IF n = 0 THEN keyMap
    ELSE LET m == ApplyLoop(keyMap, chs, n - 1)
             c == chs[n]
         IN  IF c.Type \in {ChangeTypeCreate, ChangeTypeUpdate}
             THEN [x \in DOMAIN m \cup {c.Key.Name} |->
                      IF x = c.Key.Name THEN c.Key ELSE m[x]]
             ELSE IF c.Type = ChangeTypeDelete
             THEN [x \in DOMAIN m \ {c.Key.Name} |-> m[x]]
             ELSE m

\* every slice ApplyChanges(keys, chs) can return
ApplyChangesResults(keys, chs) ==
    LET m == ApplyLoop(KeyMap(keys), chs, Len(chs))
    IN  {[i \in 1..Len(o) |-> m[o[i]]] : o \in Perms(DOMAIN m)}

\* faulty variant: LocalWins shares the timestamp comparison of NewerWins
ResolvedKey_LocalIfNewer(c) ==
    CASE c.Strategy = StrategyRemoteWins -> c.RemoteKey
      [] c.Strategy \in {StrategyLocalWins, StrategyNewerWins} ->
            IF c.LocalKey.UpdatedAt > c.RemoteKey.UpdatedAt
            THEN c.LocalKey ELSE c.RemoteKey
      [] c.Strategy = StrategyManual -> c.LocalKey
      [] OTHER -> c.ResolvedKey

\* faulty variant: Manual resolves nothing and leaves ResolvedKey as it was
ResolvedKey_ManualUnset(c) ==
    CASE c.Strategy = StrategyLocalWins -> c.LocalKey
      [] c.Strategy = StrategyRemoteWins -> c.RemoteKey
      [] c.Strategy = StrategyNewerWins ->
            IF c.LocalKey.UpdatedAt > c.RemoteKey.UpdatedAt
            THEN c.LocalKey ELSE c.RemoteKey
      [] OTHER -> c.ResolvedKey

\* the record ResolveConflict stores in c.ResolvedKey
ResolvedKey(c) ==
    CASE c.Strategy = StrategyLocalWins -> c.LocalKey
      [] c.Strategy = StrategyRemoteWins -> c.RemoteKey
      [] c.Strategy = StrategyNewerWins ->
            IF c.LocalKey.UpdatedAt > c.RemoteKey.UpdatedAt
            THEN c.LocalKey ELSE c.RemoteKey
      [] c.Strategy = StrategyManual -> c.LocalKey
      [] OTHER -> c.ResolvedKey

\* faulty variant: the cached checksum mappings are compared, as DetectChanges
\* does, instead of the checksums of the two records
ConflictNames_FromSnapshots(localMap, remoteMap) ==
    {n \in DOMAIN localMap :
        /\ n \in DOMAIN remoteMap
        /\ n \in DOMAIN localState /\ n \in DOMAIN remoteState
        /\ localState[n] # remoteState[n]}

\* DetectConflicts: the names it appends a ConflictResolution for
ConflictNames(localMap, remoteMap) ==
    {n \in DOMAIN localMap :
        /\ n \in DOMAIN remoteMap
        /\ ComputeChecksum(localMap[n]) # ComputeChecksum(remoteMap[n])}

\* every slice DetectConflicts(local, remote) can return
DetectConflictsResults(local, remote) ==
    LET localMap == KeyMap(local)
        remoteMap == KeyMap(remote)
    IN  {[i \in 1..Len(o) |->
            [KeyName |-> o[i], LocalKey |-> localMap[o[i]],
             RemoteKey |-> remoteMap[o[i]], Strategy |-> strategy,
             ResolvedKey |-> ZeroKey]] :
         o \in Perms(ConflictNames(localMap, remoteMap))}

\* ------------------------------------------------------------- inputs
\* the change lists a caller can hand to ApplyChanges
ChangePool ==
    {KeyChange(t, k, ComputeChecksum(k)) :
        t \in {ChangeTypeCreate, ChangeTypeUpdate}, k \in StoreKeys}
    \cup {DeleteChange(n) : n \in Names}
    \cup {KeyChange("rename", k, ComputeChecksum(k)) :
            k \in {NewKey(NamePool[1], "abc", MaxTime)}}

ChangeLists == UNION {[1..n -> ChangePool] : n \in 0..MaxChanges}

\* the record sets ApplyChanges is tried on: the incoming changes carry
\* either the same version of a record ("abc") or another one ("xyz")
ApplyKeyLists ==
    {keys \in KeyLists : \A i \in DOMAIN keys : keys[i].Fingerprint = "abc"}

\* the record sets of the remote party: its copies carry an older
\* last-updated time than the local ones
RemoteKeyLists ==
    {keys \in UNION {[1..n -> {k \in Keys : k.UpdatedAt = 1}] : n \in 0..MaxNames} :
        UniqueNames(keys)}

\* another value for each field of a record the key store can hold
OtherValue ==
    [Name |-> "spare", Type |-> "rsa", Path |-> "keys2", PubPath |-> "keys2.pub",
     Tags |-> <<"prod">>, Comment |-> "laptop", CreatedAt |-> 2, UpdatedAt |-> 0,
     Fingerprint |-> "other", Installed |-> FALSE]

\* a record with the fields of S replaced by another value
Edited(key, S) ==
    [f \in DOMAIN key |-> IF f \in S THEN OtherValue[f] ELSE key[f]]

\* the copies of a record ComputeChecksum is compared on: at most one of the
\* serialised fields edited, and any of three fields that are not serialised
EditedCopies(key) ==
    {Edited(key, S \cup V) :
        S \in {{}} \cup {{f} : f \in {"Name", "Type", "Fingerprint", "Path",
                                     "Comment", "Tags", "CreatedAt"}},
        V \in SUBSET {"PubPath", "UpdatedAt", "Installed"}}

\* a SyncStrategy is a string: the CLI validates it, the library does not
Strategies ==
    {StrategyLocalWins, StrategyRemoteWins, StrategyNewerWins, StrategyManual,
     "other"}

\* &ConflictResolution{} as DetectConflicts builds it: ResolvedKey unset
Conflicts ==
    {c \in [KeyName : Names, LocalKey : Keys, RemoteKey : Keys,
            Strategy : Strategies, ResolvedKey : {ZeroKey}] :
        c.LocalKey.Name = c.KeyName /\ c.RemoteKey.Name = c.KeyName}

SyncIdle ==
    /\ localState = <<>>
    /\ remoteState = <<>>
    /\ localKeys = <<>>
    /\ changes = <<>>
    /\ phase = "idle"

ApplyIdle ==
    /\ inKeys = <<>>
    /\ inChanges = <<>>
    /\ outKeys = <<>>

ResolveIdle ==
    /\ conflict = [KeyName |-> "", LocalKey |-> ZeroKey, RemoteKey |-> ZeroKey,
                   Strategy |-> "", ResolvedKey |-> ZeroKey]
    /\ resolved = <<>>

\* the manager of the status command (NewerWins), no DetectConflicts call
ConflictIdle ==
    /\ remoteKeys = <<>>
    /\ strategy = StrategyNewerWins
    /\ conflicts = <<>>

\* ------------------------------------------------------ history ledger
\* SyncHistoryEntry{} : nothing set
ZeroEntry ==
    [ID |-> "", Timestamp |-> 0, Direction |-> "", ChangesApplied |-> 0,
     ConflictsFound |-> 0, Success |-> FALSE]

EntryIDs == <<"s1", "s2", "s3", "s4", "s5", "s6">>

\* the entry a caller records for the sync it ran at time ts
Stamped(ts) ==
    [ID |-> EntryIDs[ts], Timestamp |-> ts,
     Direction |-> IF ts % 2 = 1 THEN "push" ELSE "pull",
     ChangesApplied |-> ts, ConflictsFound |-> ts % 2, Success |-> ts # 2]

\* a second sync recorded at the time of Stamped(1)
Retry ==
    [ID |-> "retry", Timestamp |-> 1, Direction |-> "pull",
     ChangesApplied |-> 0, ConflictsFound |-> 2, Success |-> FALSE]

\* the entries a caller can hand to Add
EntryPool == {Stamped(1), Stamped(2), Stamped(3), ZeroEntry, Retry}

\* faulty variant: the conflict count is left out of the written entry
EncodeEntry_OmitsConflicts(e) ==
    <<e.ID, e.Timestamp, e.Direction, e.ChangesApplied, 0, e.Success>>

\* json.MarshalIndent / json.Unmarshal of one entry
EncodeEntry(e) ==
    <<e.ID, e.Timestamp, e.Direction, e.ChangesApplied, e.ConflictsFound,
      e.Success>>

DecodeEntry(t) ==
    [ID |-> t[1], Timestamp |-> t[2], Direction |-> t[3],
     ChangesApplied |-> t[4], ConflictsFound |-> t[5], Success |-> t[6]]

\* the history file: missing, unreadable or unparsable, or a JSON array
NoFile == [state |-> "absent", data |-> <<>>]
CorruptFile == [state |-> "corrupt", data |-> <<>>]
ValidFile(es) == [state |-> "valid", data |-> [i \in DOMAIN es |-> EncodeEntry(es[i])]]

\* a file saved by a ledger configured with a larger maximum
LongerFile ==
    ValidFile([i \in 1..(MaxRetained + 1) |-> Stamped(MaxRetained + 2 - i)])

\* a file saved by a ledger after its first Add
ShortFile == ValidFile(<<Stamped(1)>>)

\* the files a ledger can find at its location
InitialFiles == {NoFile, CorruptFile, ShortFile, LongerFile}

\* faulty variant: a load that finds no list leaves one unset entry
LoadEntries_UnsetEntry(f) ==
    IF f.state = "valid" THEN [i \in DOMAIN f.data |-> DecodeEntry(f.data[i])]
    ELSE <<ZeroEntry>>

\* Load: sh.entries after NewSyncHistory (a load error is dropped and leaves
\* the empty list)
LoadEntries(f) ==
    IF f.state = "valid" THEN [i \in DOMAIN f.data |-> DecodeEntry(f.data[i])]
    ELSE <<>>

\* a slice without its i-th element
RemoveAt(es, i) == [j \in 1..(Len(es) - 1) |-> IF j < i THEN es[j] ELSE es[j + 1]]

\* faulty variant: oldest first
RECURSIVE SortOrders_OldestFirst(_)
SortOrders_OldestFirst(es) ==
    IF es = <<>> THEN {<<>>}
    ELSE UNION {{<<es[i]>> \o rest : rest \in SortOrders_OldestFirst(RemoveAt(es, i))} :
                i \in {k \in DOMAIN es :
                          \A j \in DOMAIN es : ~(es[j].Timestamp < es[k].Timestamp)}}

\* sort.Slice(entries, Timestamp.After): every order sort.Slice can leave,
\* newest first, entries of equal timestamp in any order
RECURSIVE SortOrders(_)
SortOrders(es) ==
    IF es = <<>> THEN {<<>>}
    ELSE UNION {{<<es[i]>> \o rest : rest \in SortOrders(RemoveAt(es, i))} :
                i \in {k \in DOMAIN es :
                          \A j \in DOMAIN es : ~(es[j].Timestamp > es[k].Timestamp)}}

\* faulty variant: the list is never cut
Truncate_Never(es, max) == es

\* if len(sh.entries) > sh.maxEntries { sh.entries = sh.entries[:sh.maxEntries] }
Truncate(es, max) == IF Len(es) > max THEN SubSeq(es, 1, max) ELSE es

\* faulty variant: an empty list is not written, the file stays as it was
SaveOutcomes_SkipsEmptyWrite(es, max, f) ==
    {[entries |-> es, file |-> f, err |-> TRUE]}
    \cup UNION {LET cut == Truncate(sorted, max)
                IN  {[entries |-> cut,
                      file |-> IF cut = <<>> THEN f ELSE ValidFile(cut),
                      err |-> FALSE],
                     [entries |-> cut, file |-> f, err |-> TRUE],
                     [entries |-> cut, file |-> CorruptFile, err |-> TRUE]} :
                sorted \in SortOrders(es)}

\* faulty variant: a failing Save takes the latest append back
SaveOutcomes_RollsBack(es, max, f) ==
    {[entries |-> SubSeq(es, 1, Len(es) - 1), file |-> f, err |-> TRUE]}
    \cup UNION {LET cut == Truncate(sorted, max)
                IN  {[entries |-> cut, file |-> ValidFile(cut), err |-> FALSE],
                     [entries |-> SubSeq(es, 1, Len(es) - 1), file |-> f,
                      err |-> TRUE],
                     [entries |-> SubSeq(es, 1, Len(es) - 1),
                      file |-> CorruptFile, err |-> TRUE]} :
                sorted \in SortOrders(es)}

\* Save() on the in-memory list es and the file f: every outcome, as the
\* list and the file it leaves and whether it returned an error.
\* MkdirAll can fail (before the sort), WriteFile can fail (after the sort and
\* the cut) leaving the file as it was or cut short, or both succeed.
SaveOutcomes(es, max, f) ==
    {[entries |-> es, file |-> f, err |-> TRUE]}
    \cup UNION {LET cut == Truncate(sorted, max)
                IN  {[entries |-> cut, file |-> ValidFile(cut), err |-> FALSE],
                     [entries |-> cut, file |-> f, err |-> TRUE],
                     [entries |-> cut, file |-> CorruptFile, err |-> TRUE]} :
                sorted \in SortOrders(es)}

RECURSIVE SumOver(_, _)
SumOver(es, field) ==
    IF es = <<>> THEN 0 ELSE es[1][field] + SumOver(Tail(es), field)

\* faulty variant: the first entry is taken to be the latest
LastSyncTime_First(es, n) == IF es = <<>> THEN 0 ELSE es[1].Timestamp

\* the loop of GetStats over es[1..n] that keeps the latest timestamp
RECURSIVE LastSyncTime(_, _)
LastSyncTime(es, n) ==
    IF es = <<>> THEN 0
    ELSE IF n = 0 THEN es[1].Timestamp
    ELSE LET last == LastSyncTime(es, n - 1)
         IN  IF es[n].Timestamp > last THEN es[n].Timestamp ELSE last

\* SyncStats{}
ZeroStats ==
    [TotalSyncs |-> 0, SuccessfulSyncs |-> 0, FailedSyncs |-> 0,
     TotalChanges |-> 0, TotalConflicts |-> 0, PushCount |-> 0, PullCount |-> 0,
     LastSyncTime |-> 0]

\* GetStats() on the in-memory list es
Stats(es) ==
    [TotalSyncs |-> Len(es),
     SuccessfulSyncs |-> Cardinality({i \in DOMAIN es : es[i].Success}),
     FailedSyncs |-> Cardinality({i \in DOMAIN es : ~es[i].Success}),
     TotalChanges |-> SumOver(es, "ChangesApplied"),
     TotalConflicts |-> SumOver(es, "ConflictsFound"),
     PushCount |-> Cardinality({i \in DOMAIN es : es[i].Direction = "push"}),
     PullCount |-> Cardinality({i \in DOMAIN es : es[i].Direction = "pull"}),
     LastSyncTime |-> LastSyncTime(es, Len(es))]

\* what the caller of a ledger method gets back and what it passed:
\* op the method, err whether it returned an error, panic whether it
\* panicked, arg the entry given to Add, n the count given to GetRecent,
\* out the slice GetRecent or GetByDateRange returned, stats the SyncStats
\* GetStats returned, text the lines FormatHistory returned
Returned(op, err) ==
    [op |-> op, err |-> err, panic |-> FALSE, arg |-> ZeroEntry, n |-> 0,
     out |-> <<>>, stats |-> ZeroStats, text |-> <<>>]

LedgerIdle ==
    /\ entries = <<>>
    /\ maxEntries = 0
    /\ file = NoFile
    /\ ret = Returned("", FALSE)

\* the two processes that open one ledger location
Instances == {1, 2}

\* a process that has not called NewSyncHistory yet
NotStarted == [pc |-> "start", loaded |-> <<>>, entries |-> <<>>, err |-> FALSE]

RaceIdle ==
    /\ peers = [i \in Instances |-> NotStarted]
    /\ writers = <<>>

\* the key store's file: absent before Initialize, unreadable or unparsable,
\* or a YAML document whose keys list is a sequence of encoded records
AbsentConfig == [state |-> "absent", keys |-> <<>>]
CorruptConfig == [state |-> "corrupt", keys |-> <<>>]
ValidConfig(keys) == [state |-> "valid", keys |-> keys]

\* a call on the Manager and its result: name and arg are what the caller
\* passed, key the record GetKey returned
Called(op, name, err) ==
    [op |-> op, name |-> name, arg |-> ZeroKey, err |-> err, key |-> ZeroKey]

CliIdle == runs = <<>>

StoreIdle ==
    /\ configFile = AbsentConfig
    /\ cfgKeys = <<>>
    /\ call = Called("", "", FALSE)

OtherIdle == CliIdle /\ StoreIdle

ChecksumIdle ==
    /\ recA = ZeroKey
    /\ recB = ZeroKey
    /\ sums = <<>>

\* everything outside the SyncManager's own calls is at rest
RestIdle ==
    /\ given = <<>>
    /\ ChecksumIdle
    /\ LedgerIdle
    /\ RaceIdle
    /\ OtherIdle

\* ------------------------------------------- SyncManager state machine
\* NewSyncManager: both snapshots empty
Init ==
    /\ localState = <<>>
    /\ remoteState = <<>>
    /\ localKeys \in KeyLists
    /\ changes = <<>>
    /\ phase = "idle"
    /\ ApplyIdle
    /\ ResolveIdle
    /\ ConflictIdle
    /\ RestIdle

\* the caller re-reads its record set from the key store
LoadKeys ==
    /\ phase = "idle"
    /\ \E keys \in KeyLists : localKeys' = keys
    /\ UNCHANGED <<localState, remoteState, changes, phase>>
    /\ UNCHANGED <<applyVars, resolveVars, conflictVars, restVars>>

UpdateLocalState ==
    /\ phase \in {"idle", "applied"}
    /\ localState' = SnapshotOf(localKeys)
    /\ phase' = IF phase = "applied" THEN "snapshotted" ELSE "idle"
    /\ UNCHANGED <<remoteState, localKeys, changes>>
    /\ UNCHANGED <<applyVars, resolveVars, conflictVars, restVars>>

UpdateRemoteState ==
    /\ phase = "idle"
    /\ \E m \in RemoteMaps : remoteState' = m
    /\ UNCHANGED <<localState, localKeys, changes, phase>>
    /\ UNCHANGED <<applyVars, resolveVars, conflictVars, restVars>>

DetectChanges ==
    /\ phase \in {"idle", "snapshotted"}
    /\ \E result \in DetectChangesResults(localKeys) : changes' = result
    /\ phase' = IF phase = "snapshotted" THEN "redetected" ELSE "detected"
    /\ UNCHANGED <<localState, remoteState, localKeys>>
    /\ UNCHANGED <<applyVars, resolveVars, conflictVars, restVars>>

\* the caller is done with the change list it holds
EndPass ==
    /\ phase # "idle"
    /\ changes' = <<>>
    /\ phase' = "idle"
    /\ UNCHANGED <<localState, remoteState, localKeys>>
    /\ UNCHANGED <<applyVars, resolveVars, conflictVars, restVars>>

Next ==
    \/ LoadKeys
    \/ UpdateLocalState
    \/ UpdateRemoteState
    \/ DetectChanges
    \/ EndPass

Spec == Init /\ [][Next]_vars

\* ---------------------------------------------- one reconciliation pass
\* detect, apply the detected changes, rebuild the snapshot, detect again;
\* the pass starts from any snapshots UpdateLocalState and UpdateRemoteState
\* can have left
PassInit ==
    /\ localState \in {SnapshotOf(keys) : keys \in KeyLists}
    /\ remoteState \in RemoteMaps
    /\ localKeys \in KeyLists
    /\ changes = <<>>
    /\ phase = "idle"
    /\ ApplyIdle
    /\ ResolveIdle
    /\ ConflictIdle
    /\ RestIdle

\* ApplyChanges(localKeys, changes) on the list DetectChanges just returned;
\* the caller keeps the result as its record set
ApplyDetected ==
    /\ phase = "detected"
    /\ \E result \in ApplyChangesResults(localKeys, changes) : localKeys' = result
    /\ changes' = <<>>
    /\ phase' = "applied"
    /\ UNCHANGED <<localState, remoteState>>
    /\ UNCHANGED <<applyVars, resolveVars, conflictVars, restVars>>

PassNext ==
    \/ DetectChanges
    \/ ApplyDetected
    \/ UpdateLocalState

PassSpec == PassInit /\ [][PassNext]_vars

\* ------------------------------------------ ApplyChanges on free inputs
ApplyInit ==
    /\ SyncIdle
    /\ inKeys \in ApplyKeyLists
    /\ inChanges \in ChangeLists
    /\ outKeys = <<>>
    /\ ResolveIdle
    /\ ConflictIdle
    /\ RestIdle

\* ApplyChanges(inKeys, inChanges), then ApplyChanges(result, inChanges)
ApplyChanges ==
    /\ Len(outKeys) < 2
    /\ \E result \in ApplyChangesResults(
                        IF outKeys = <<>> THEN inKeys ELSE outKeys[Len(outKeys)],
                        inChanges) :
          outKeys' = Append(outKeys, result)
    /\ UNCHANGED <<inKeys, inChanges>>
    /\ UNCHANGED <<syncVars, resolveVars, conflictVars, restVars>>

ApplyNext == ApplyChanges

ApplySpec == ApplyInit /\ [][ApplyNext]_vars

\* ------------------------------------------------------ ResolveConflict
ResolveInit ==
    /\ SyncIdle
    /\ ApplyIdle
    /\ conflict \in Conflicts
    /\ resolved = <<>>
    /\ ConflictIdle
    /\ RestIdle

ResolveConflict ==
    /\ resolved = <<>>
    /\ conflict' = [conflict EXCEPT !.ResolvedKey = ResolvedKey(conflict)]
    /\ resolved' = <<conflict'.ResolvedKey>>
    /\ UNCHANGED <<syncVars, applyVars, conflictVars, restVars>>

ResolveNext == ResolveConflict

ResolveSpec == ResolveInit /\ [][ResolveNext]_vars

\* ------------------------------------------------------ DetectConflicts
\* a manager built by NewSyncManager(deviceID, strategy) whose remote snapshot
\* is any mapping UpdateRemoteState can have stored; the local records are one
\* version ("abc") of each name, the remote ones either version
ConflictInit ==
    /\ localState = <<>>
    /\ remoteState \in RemoteMaps
    /\ localKeys \in ApplyKeyLists
    /\ changes = <<>>
    /\ phase = "idle"
    /\ ApplyIdle
    /\ ResolveIdle
    /\ remoteKeys \in RemoteKeyLists
    /\ strategy \in Strategies
    /\ conflicts = <<>>
    /\ RestIdle

\* DetectConflicts(localKeys, remoteKeys)
DetectConflicts ==
    /\ phase = "idle"
    /\ \E result \in DetectConflictsResults(localKeys, remoteKeys) :
          conflicts' = result
    /\ phase' = "conflicts"
    /\ UNCHANGED <<localState, remoteState, localKeys, changes>>
    /\ UNCHANGED <<remoteKeys, strategy>>
    /\ UNCHANGED <<applyVars, resolveVars, restVars>>

ConflictNext ==
    \/ UpdateLocalState
    \/ DetectConflicts

ConflictSpec == ConflictInit /\ [][ConflictNext]_vars

\* --------------------------------------- UpdateLocalState, call after call
\* a manager whose remote snapshot is any mapping UpdateRemoteState can have
\* stored, before its first UpdateLocalState
SnapshotInit ==
    /\ localState = <<>>
    /\ remoteState \in RemoteMaps
    /\ localKeys = <<>>
    /\ changes = <<>>
    /\ phase = "idle"
    /\ ApplyIdle
    /\ ResolveIdle
    /\ ConflictIdle
    /\ given = <<>>
    /\ ChecksumIdle
    /\ LedgerIdle
    /\ RaceIdle
    /\ OtherIdle

\* UpdateLocalState(keys) for any record list of the key store: a first call
\* and the call after it
UpdateLocalStateCall ==
    /\ Len(given) < 2
    /\ \E keys \in KeyLists :
          /\ localState' = SnapshotOf(keys)
          /\ given' = Append(given, keys)
    /\ UNCHANGED <<remoteState, localKeys, changes, phase>>
    /\ UNCHANGED <<applyVars, resolveVars, conflictVars, checksumVars, ledgerVars, raceVars, otherVars>>

SnapshotNext == UpdateLocalStateCall

SnapshotSpec == SnapshotInit /\ [][SnapshotNext]_vars

\* ----------------------------------------- ComputeChecksum on free inputs
ChecksumInit ==
    /\ SyncIdle
    /\ ApplyIdle
    /\ ResolveIdle
    /\ ConflictIdle
    /\ given = <<>>
    /\ recA \in Keys
    /\ recB \in EditedCopies(recA)
    /\ sums = <<>>
    /\ LedgerIdle
    /\ RaceIdle
    /\ OtherIdle

ComputeChecksums ==
    /\ sums = <<>>
    /\ sums' = <<ComputeChecksum(recA), ComputeChecksum(recB)>>
    /\ UNCHANGED <<recA, recB>>
    /\ UNCHANGED <<syncVars, applyVars, resolveVars, conflictVars, snapshotVars, ledgerVars, raceVars, otherVars>>

ChecksumNext == ComputeChecksums

ChecksumSpec == ChecksumInit /\ [][ChecksumNext]_vars

\* ----------------------------------------------------- SyncHistory ledger
\* the methods never touch the SyncManager
LedgerFrame ==
    UNCHANGED <<syncVars, applyVars, resolveVars, conflictVars, snapshotVars,
                checksumVars, raceVars, otherVars>>

\* the ledger has not panicked
Alive == ~ret.panic

\* NewSyncHistory(configDir, maxEntries) at a location holding some file
LedgerInit ==
    /\ SyncIdle
    /\ ApplyIdle
    /\ ResolveIdle
    /\ ConflictIdle
    /\ given = <<>>
    /\ ChecksumIdle
    /\ RaceIdle
    /\ OtherIdle
    /\ file \in InitialFiles
    /\ maxEntries = MaxRetained
    /\ entries = LoadEntries(file)
    /\ ret = Returned("NewSyncHistory", FALSE)

\* a new process opens the ledger again: the in-memory list is replaced by
\* what Load reads, and NewSyncHistory returns no error whatever Load said
NewSyncHistory ==
    /\ entries' = LoadEntries(file)
    /\ ret' = Returned("NewSyncHistory", FALSE)
    /\ UNCHANGED <<maxEntries, file>>
    /\ LedgerFrame

\* Add(entry): append, then Save
Add ==
    /\ Alive
    /\ Len(entries) <= maxEntries
    /\ \E entry \in EntryPool :
       \E o \in SaveOutcomes(Append(entries, entry), maxEntries, file) :
          /\ entries' = o.entries
          /\ file' = o.file
          /\ ret' = [Returned("Add", o.err) EXCEPT !.arg = entry]
    /\ UNCHANGED maxEntries
    /\ LedgerFrame

Save ==
    /\ Alive
    /\ \E o \in SaveOutcomes(entries, maxEntries, file) :
          /\ entries' = o.entries
          /\ file' = o.file
          /\ ret' = Returned("Save", o.err)
    /\ UNCHANGED maxEntries
    /\ LedgerFrame

\* Clear(): empty the list, then Save
Clear ==
    /\ Alive
    /\ \E o \in SaveOutcomes(<<>>, maxEntries, file) :
          /\ entries' = o.entries
          /\ file' = o.file
          /\ ret' = Returned("Clear", o.err)
    /\ UNCHANGED maxEntries
    /\ LedgerFrame

\* the counts a caller passes to GetRecent (the CLI passes --limit as given)
GetRecentArgs == {-1, 0, 1, MaxRetained, MaxRetained + 2}

\* GetRecent(n): cap n at the length, sort in place, slice; the slice
\* expression sh.entries[:n] panics for a negative n
GetRecent ==
    /\ Alive
    /\ \E n \in GetRecentArgs :
       \E sorted \in SortOrders(entries) :
          LET m == IF n > Len(entries) THEN Len(entries) ELSE n
          IN  /\ entries' = sorted
              /\ ret' = [Returned("GetRecent", FALSE) EXCEPT
                            !.n = n,
                            !.panic = (m < 0),
                            !.out = IF m < 0 THEN <<>> ELSE SubSeq(sorted, 1, m)]
    /\ UNCHANGED <<maxEntries, file>>
    /\ LedgerFrame

GetStats ==
    /\ Alive
    /\ ret' = [Returned("GetStats", FALSE) EXCEPT !.stats = Stats(entries)]
    /\ UNCHANGED <<entries, maxEntries, file>>
    /\ LedgerFrame

\* the (start, end) pairs a caller passes to GetByDateRange
DateRanges == {<<0, 2>>, <<0, 4>>, <<1, 4>>, <<2, 1>>}

\* the loop of GetByDateRange: the entries strictly between start and end, in
\* ledger order
InRange(es, start, end) ==
    SelectSeq(es, LAMBDA e : e.Timestamp > start /\ e.Timestamp < end)

\* faulty variant: the result is filtered into the ledger's own slice
GetByDateRange_FiltersLedger ==
    /\ Alive
    /\ \E r \in DateRanges :
       \E sorted \in SortOrders(InRange(entries, r[1], r[2])) :
          /\ entries' = sorted
          /\ ret' = [Returned("GetByDateRange", FALSE) EXCEPT !.out = sorted]
    /\ UNCHANGED <<maxEntries, file>>
    /\ LedgerFrame

\* GetByDateRange(start, end): copy the matching entries, sort the copy
GetByDateRange ==
    /\ Alive
    /\ \E r \in DateRanges :
       \E sorted \in SortOrders(InRange(entries, r[1], r[2])) :
          ret' = [Returned("GetByDateRange", FALSE) EXCEPT !.out = sorted]
    /\ UNCHANGED <<entries, maxEntries, file>>
    /\ LedgerFrame

\* the lines FormatHistory writes for one entry: the status mark ("ok" for the
\* check mark, "failed" for the cross), timestamp, direction and the counts
FormatEntry(e) ==
    <<IF ~e.Success THEN "failed" ELSE "ok", e.Timestamp, e.Direction,
      e.ChangesApplied, e.ConflictsFound>>

\* the text FormatHistory returns, as its sequence of lines
FormatText(es) ==
    IF Len(es) = 0 THEN <<"No sync history found.">>
    ELSE <<"Sync History:">> \o [i \in 1..Len(es) |-> FormatEntry(es[i])]

\* FormatHistory(entries): the CLI passes it a slice GetRecent returned, a
\* prefix of sh.entries
FormatHistory ==
    /\ Alive
    /\ \E k \in 0..Len(entries) :
          ret' = [Returned("FormatHistory", FALSE) EXCEPT
                     !.out = SubSeq(entries, 1, k),
                     !.text = FormatText(SubSeq(entries, 1, k))]
    /\ UNCHANGED <<entries, maxEntries, file>>
    /\ LedgerFrame

LedgerNext ==
    \/ NewSyncHistory
    \/ Add
    \/ Save
    \/ Clear

LedgerSpec == LedgerInit /\ [][LedgerNext]_vars

\* ------------------------------------------------- queries on the ledger
\* the lists a ledger can hold in memory: Add with a failing MkdirAll appends
\* any entry to any list and leaves it uncut and unsorted
LedgerLists == UNION {[1..n -> EntryPool] : n \in 0..(MaxRetained + 1)}

\* a ledger after any run of Add calls whose MkdirAll failed
QueryInit ==
    /\ SyncIdle
    /\ ApplyIdle
    /\ ResolveIdle
    /\ ConflictIdle
    /\ given = <<>>
    /\ ChecksumIdle
    /\ RaceIdle
    /\ OtherIdle
    /\ file = NoFile
    /\ maxEntries = MaxRetained
    /\ entries \in LedgerLists
    /\ ret = IF entries = <<>> THEN Returned("NewSyncHistory", FALSE)
             ELSE [Returned("Add", TRUE) EXCEPT !.arg = entries[Len(entries)]]

QueryNext ==
    \/ NewSyncHistory
    \/ GetRecent
    \/ GetByDateRange
    \/ GetStats
    \/ FormatHistory

QuerySpec == QueryInit /\ [][QueryNext]_vars

\* ------------------------------------------- two ledgers on one location
\* the entry process i records: newer than every entry a file can hold
RaceEntry(i) == Stamped(MaxRetained + 1 + i)

\* faulty variant: the file is read again right before the append, as it
\* would be under a lock held across load and save
Held_Reloaded(i) == LoadEntries(file)

\* the list process i appends to: the one it holds in memory since its load
Held(i) == peers[i].entries

\* two processes start on a location holding some file; neither has called
\* NewSyncHistory yet
RaceInit ==
    /\ SyncIdle
    /\ ApplyIdle
    /\ ResolveIdle
    /\ ConflictIdle
    /\ given = <<>>
    /\ ChecksumIdle
    /\ entries = <<>>
    /\ ret = Returned("", FALSE)
    /\ maxEntries = MaxRetained
    /\ file \in InitialFiles
    /\ RaceIdle
    /\ OtherIdle

RaceFrame ==
    UNCHANGED <<syncVars, applyVars, resolveVars, conflictVars, snapshotVars,
                checksumVars, entries, maxEntries, ret, otherVars>>

\* process i: NewSyncHistory(configDir, maxEntries)
NewSyncHistoryAt(i) ==
    /\ peers[i].pc = "start"
    /\ peers' = [peers EXCEPT ![i] = [pc |-> "loaded", loaded |-> LoadEntries(file),
                                      entries |-> LoadEntries(file), err |-> FALSE]]
    /\ UNCHANGED <<file, writers>>
    /\ RaceFrame

\* process i: Add(RaceEntry(i)), no lock taken
AddAt(i) ==
    /\ peers[i].pc = "loaded"
    /\ \E o \in SaveOutcomes(Append(Held(i), RaceEntry(i)), maxEntries, file) :
          /\ peers' = [peers EXCEPT ![i].pc = "added", ![i].entries = o.entries,
                                    ![i].err = o.err]
          /\ file' = o.file
          /\ writers' = IF o.err THEN writers ELSE Append(writers, i)
    /\ RaceFrame

RaceNext ==
    \/ \E i \in Instances : NewSyncHistoryAt(i)
    \/ \E i \in Instances : AddAt(i)

RaceSpec == RaceInit /\ [][RaceNext]_vars

\* ------------------------------------------------- `sync resolve` command
\* what --strategy can hold on the command line; "unset" is a run without it
StrategyFlags ==
    {"unset", StrategyLocalWins, StrategyRemoteWins, StrategyNewerWins,
     StrategyManual, "other", ""}

\* cmd.Flags().GetString("strategy"): the flag's default is "newer"
GetString(flag) == IF flag = "unset" THEN "newer" ELSE flag

\* the switch of syncResolveCmd: the SyncStrategy a name selects, none for a
\* name that takes the default branch
SyncStrategyOf(name) ==
    IF name = "local" THEN <<StrategyLocalWins>>
    ELSE IF name = "remote" THEN <<StrategyRemoteWins>>
    ELSE IF name = "newer" THEN <<StrategyNewerWins>>
    ELSE <<>>

\* NewSyncManager(deviceID, strategy)
NewSyncManager(device, selected) ==
    [deviceID |-> device, strategy |-> selected,
     localState |-> <<>>, remoteState |-> <<>>]

\* one run of the command: the name it read, the error it returned and the
\* SyncManager it constructed (none when it returned at the default branch)
SyncResolveRun(flag) ==
    LET name == GetString(flag)
        selected == SyncStrategyOf(name)
    IN  IF selected = <<>>
        THEN [strategy |-> name, err |-> TRUE, manager |-> <<>>]
        ELSE [strategy |-> name, err |-> FALSE,
              manager |-> <<NewSyncManager(deviceID, selected[1])>>]

ResolveCmdInit ==
    /\ SyncIdle
    /\ ApplyIdle
    /\ ResolveIdle
    /\ ConflictIdle
    /\ given = <<>>
    /\ ChecksumIdle
    /\ LedgerIdle
    /\ RaceIdle
    /\ StoreIdle
    /\ runs = <<>>

\* syncResolveCmd.RunE
SyncResolveCmd ==
    /\ Len(runs) < 3
    /\ \E flag \in StrategyFlags : runs' = Append(runs, SyncResolveRun(flag))
    /\ UNCHANGED <<syncVars, applyVars, resolveVars, conflictVars, snapshotVars,
                   checksumVars, ledgerVars, raceVars, storeVars>>

ResolveCmdNext == SyncResolveCmd

ResolveCmdSpec == ResolveCmdInit /\ [][ResolveCmdNext]_vars

\* --------------------------------------------------- the key store (YAML)
\* the fields of models.Key the model carries: field, yaml tag, omitempty
KeyFields ==
    <<<<"Name", "name", FALSE>>, <<"Type", "type", FALSE>>,
      <<"Path", "path", FALSE>>, <<"PubPath", "pub_path", FALSE>>,
      <<"Tags", "tags", TRUE>>, <<"Comment", "comment", TRUE>>,
      <<"CreatedAt", "created_at", FALSE>>, <<"UpdatedAt", "updated_at", FALSE>>,
      <<"Fingerprint", "fingerprint", TRUE>>, <<"Installed", "installed", FALSE>>>>

\* yaml.Marshal of one record: a (tag, value) pair per field, in field order;
\* an omitempty field holding its zero value is left out
EncodeKey(key) ==
    LET pairs == [i \in DOMAIN KeyFields |->
                     <<KeyFields[i][2], key[KeyFields[i][1]], i>>]
        written(p) == ~(KeyFields[p[3]][3] /\ p[2] = ZeroKey[KeyFields[p[3]][1]])
        kept == SelectSeq(pairs, written)
    IN  [i \in DOMAIN kept |-> <<kept[i][1], kept[i][2]>>]

\* yaml.Unmarshal of one record: a field takes the value of the last pair
\* under its tag, and keeps its zero value when there is none
DecodeKey(y) ==
    LET tagOf(f) == KeyFields[CHOOSE i \in DOMAIN KeyFields : KeyFields[i][1] = f][2]
        at(f) == {i \in DOMAIN y : y[i][1] = tagOf(f)}
        last(f) == CHOOSE i \in at(f) : \A j \in at(f) : j <= i
    IN  [f \in DOMAIN ZeroKey |-> IF at(f) = {} THEN ZeroKey[f] ELSE y[last(f)][2]]

\* (s *Store) load: the decoded key list, or an error
load(f) ==
    IF f.state = "valid"
    THEN [err |-> FALSE, keys |-> [i \in DOMAIN f.keys |-> DecodeKey(f.keys[i])]]
    ELSE [err |-> TRUE, keys |-> <<>>]

\* (s *Store) save: MkdirAll or WriteFile fails and leaves the file as it
\* was, WriteFile fails after truncating it, or the document is written
save(keys, f) ==
    {[file |-> f, err |-> TRUE],
     [file |-> CorruptConfig, err |-> TRUE],
     [file |-> ValidConfig([i \in DOMAIN keys |-> EncodeKey(keys[i])]), err |-> FALSE]}

\* the first position of a record named `name`, 0 when there is none
IndexOfName(keys, name) ==
    IF \E i \in DOMAIN keys : keys[i].Name = name
    THEN CHOOSE i \in DOMAIN keys :
            /\ keys[i].Name = name
            /\ \A j \in DOMAIN keys : keys[j].Name = name => i <= j
    ELSE 0

\* faulty variant: the loop over the existing keys is missing
keyStoreAdd_NoDuplicateCheck(key, f) ==
    LET config == load(f)
    IN  IF config.err THEN {[file |-> f, err |-> TRUE]}
        ELSE save(Append(config.keys, key), f)

\* (k *keyStore) Add
keyStoreAdd(key, f) ==
    LET config == load(f)
    IN  IF config.err THEN {[file |-> f, err |-> TRUE]}
        ELSE IF IndexOfName(config.keys, key.Name) # 0
        THEN {[file |-> f, err |-> TRUE]}
        ELSE save(Append(config.keys, key), f)

\* (k *keyStore) Get
keyStoreGet(name, f) ==
    LET config == load(f)
        i == IndexOfName(config.keys, name)
    IN  IF config.err \/ i = 0 THEN [err |-> TRUE, key |-> ZeroKey]
        ELSE [err |-> FALSE, key |-> config.keys[i]]

\* (k *keyStore) Delete
keyStoreDelete(name, f) ==
    LET config == load(f)
        i == IndexOfName(config.keys, name)
    IN  IF config.err \/ i = 0 THEN {[file |-> f, err |-> TRUE]}
        ELSE save(RemoveAt(config.keys, i), f)

\* (m *Manager) reload: Load replaces m.config by the decoded file, and
\* leaves it on an error
reload(f, old) ==
    LET config == load(f)
    IN  IF config.err THEN [err |-> TRUE, keys |-> old]
        ELSE [err |-> FALSE, keys |-> config.keys]

\* a record whose optional fields are set or empty
Tagged ==
    [NewKey(NamePool[1], "", MaxTime) EXCEPT !.Tags = <<"prod">>,
                                             !.Comment = "laptop"]

\* the records a caller adds: one per name, and two more under the first name
AddKeyInputs ==
    {NewKey(n, "abc", MaxTime) : n \in Names}
        \cup {NewKey(NamePool[1], "xyz", MaxTime), Tagged}

StoreFrame ==
    UNCHANGED <<syncVars, applyVars, resolveVars, conflictVars, snapshotVars,
                checksumVars, ledgerVars, raceVars, cliVars>>

\* the store after NewManager and Initialize: the file holds no key
KeyStoreInit ==
    /\ SyncIdle
    /\ ApplyIdle
    /\ ResolveIdle
    /\ ConflictIdle
    /\ given = <<>>
    /\ ChecksumIdle
    /\ LedgerIdle
    /\ RaceIdle
    /\ CliIdle
    /\ configFile = ValidConfig(<<>>)
    /\ cfgKeys = <<>>
    /\ call = Called("Initialize", "", FALSE)

\* (m *Manager) AddKey: the store's Add, then reload
AddKey ==
    /\ \E key \in AddKeyInputs :
       \E o \in keyStoreAdd(key, configFile) :
          LET r == IF o.err THEN [err |-> TRUE, keys |-> cfgKeys]
                   ELSE reload(o.file, cfgKeys)
          IN  /\ configFile' = o.file
              /\ cfgKeys' = r.keys
              /\ call' = [Called("AddKey", key.Name, r.err) EXCEPT !.arg = key]
    /\ StoreFrame

\* (m *Manager) GetKey
GetKey ==
    /\ \E name \in Names :
          LET r == keyStoreGet(name, configFile)
          IN  call' = [Called("GetKey", name, r.err) EXCEPT !.key = r.key]
    /\ UNCHANGED <<configFile, cfgKeys>>
    /\ StoreFrame

\* (m *Manager) RemoveKey: the store's Delete, then reload
RemoveKey ==
    /\ \E name \in Names :
       \E o \in keyStoreDelete(name, configFile) :
          LET r == IF o.err THEN [err |-> TRUE, keys |-> cfgKeys]
                   ELSE reload(o.file, cfgKeys)
          IN  /\ configFile' = o.file
              /\ cfgKeys' = r.keys
              /\ call' = Called("RemoveKey", name, r.err)
    /\ StoreFrame

KeyStoreNext ==
    \/ AddKey
    \/ GetKey
    \/ RemoveKey

KeyStoreSpec == KeyStoreInit /\ [][KeyStoreNext]_vars

\* ================================================================ claims
\* the elements of a sequence
Range(seq) == {seq[i] : i \in DOMAIN seq}

\* the latest call was DetectChanges and `changes` is what it returned
Detected == phase \in {"detected", "redetected"}

\* the positions of the returned list holding a change for a name
ChangesFor(name) == {i \in DOMAIN changes : changes[i].Key.Name = name}

\* the local record of a name, as a set: empty when there is none
LocalRecords(name) == {k \in Range(localKeys) : k.Name = name}

\* C1: after DetectChanges, every name in the local checksum mapping and not
\* in the remote one has exactly one change, a Create carrying the full
\* local record and the local checksum.
C1_CreateForLocalOnly ==
    Detected =>
        \A n \in DOMAIN localState \ DOMAIN remoteState :
            \E i \in DOMAIN changes :
                /\ ChangesFor(n) = {i}
                /\ changes[i].Type = ChangeTypeCreate
                /\ changes[i].Key \in LocalRecords(n)
                /\ changes[i].Checksum = localState[n]

\* C2: after DetectChanges, every name in both mappings with different
\* checksums has exactly one change, an Update carrying the full local
\* record and the local (not the remote) checksum.
C2_UpdateForDiffering ==
    Detected =>
        \A n \in DOMAIN localState \cap DOMAIN remoteState :
            localState[n] # remoteState[n] =>
                \E i \in DOMAIN changes :
                    /\ ChangesFor(n) = {i}
                    /\ changes[i].Type = ChangeTypeUpdate
                    /\ changes[i].Key \in LocalRecords(n)
                    /\ changes[i].Checksum = localState[n]
                    /\ changes[i].Checksum # remoteState[n]

\* C3: after DetectChanges, every name in the remote mapping and not in the
\* local one has exactly one change, a Delete whose record carries the name
\* and nothing else and whose checksum is empty.
C3_DeleteForRemoteOnly ==
    Detected =>
        \A n \in DOMAIN remoteState \ DOMAIN localState :
            \E i \in DOMAIN changes :
                /\ ChangesFor(n) = {i}
                /\ changes[i].Type = ChangeTypeDelete
                /\ changes[i].Key = [ZeroKey EXCEPT !.Name = n]
                /\ changes[i].Checksum = <<>>

\* C3 witness: a Delete was returned next to a change for another name
C3_Witness ==
    /\ Detected
    /\ \E i, j \in DOMAIN changes :
          /\ changes[i].Type = ChangeTypeDelete
          /\ changes[i].Key.Name \in DOMAIN remoteState \ DOMAIN localState
          /\ changes[j].Type # ChangeTypeDelete

\* C4: DetectChanges returns no change for a name whose local and remote
\* checksums are equal, and the empty list when the two mappings are equal.
C4_NoChangeWhenEqual ==
    Detected =>
        /\ \A n \in DOMAIN localState \cap DOMAIN remoteState :
              localState[n] = remoteState[n] => ChangesFor(n) = {}
        /\ localState = remoteState => changes = <<>>

\* C4 witness: DetectChanges ran on two equal, non-empty mappings, and also
\* on a state where only one of two names agrees
C4_Witness ==
    /\ Detected
    /\ localState = remoteState
    /\ DOMAIN localState = Names
    /\ changes = <<>>

\* C5: in a pass DetectChanges(L), L' = ApplyChanges(L, C), UpdateLocalState(L'),
\* the DetectChanges(L') that follows returns the empty list.
C5_FixedPoint == phase = "redetected" => changes = <<>>

\* the records of a list that carry a name
RecordsNamed(keys, name) == {k \in Range(keys) : k.Name = name}

\* the positions of inChanges at which a name is upserted or deleted
Touching(name) ==
    {i \in DOMAIN inChanges :
        /\ inChanges[i].Key.Name = name
        /\ inChanges[i].Type \in
              {ChangeTypeCreate, ChangeTypeUpdate, ChangeTypeDelete}}

\* C6: ApplyChanges(ApplyChanges(S, C), C) is the same record set as
\* ApplyChanges(S, C).
C6_ApplyIdempotent ==
    Len(outKeys) = 2 =>
        /\ Range(outKeys[2]) = Range(outKeys[1])
        /\ Len(outKeys[2]) = Len(outKeys[1])

\* C6 witness: a list with a Create and a Delete of one name was applied
\* twice and the first application changed the record set
C6_Witness ==
    /\ Len(outKeys) = 2
    /\ Range(outKeys[1]) # Range(inKeys)
    /\ \E i, j \in DOMAIN inChanges :
          /\ inChanges[i].Key.Name = inChanges[j].Key.Name
          /\ inChanges[i].Type = ChangeTypeCreate
          /\ inChanges[j].Type = ChangeTypeDelete

\* C7: the result of ApplyChanges holds at most one record per name; a name
\* no change touches keeps its original record (or stays absent); a touched
\* name ends as its last change in list order says: the change's record after
\* a Create or Update, absent after a Delete, whether or not it was present.
C7_ApplyInListOrder ==
    Len(outKeys) >= 1 =>
        /\ UniqueNames(outKeys[1])
        /\ \A n \in {k.Name : k \in Range(outKeys[1]) \cup Range(inKeys)}
                    \cup {inChanges[i].Key.Name : i \in DOMAIN inChanges} :
              IF Touching(n) = {}
              THEN RecordsNamed(outKeys[1], n) = RecordsNamed(inKeys, n)
              ELSE LET last == CHOOSE i \in Touching(n) :
                                  \A j \in Touching(n) : j <= i
                   IN  IF inChanges[last].Type = ChangeTypeDelete
                       THEN RecordsNamed(outKeys[1], n) = {}
                       ELSE RecordsNamed(outKeys[1], n) = {inChanges[last].Key}

\* C7 witness: one call deleted a name that was absent and replaced the
\* record of a name that was present
C7_Witness ==
    /\ Len(outKeys) >= 1
    /\ \E i, j \in DOMAIN inChanges :
          /\ inChanges[i].Type = ChangeTypeDelete
          /\ RecordsNamed(inKeys, inChanges[i].Key.Name) = {}
          /\ inChanges[j].Type = ChangeTypeUpdate
          /\ RecordsNamed(inKeys, inChanges[j].Key.Name) # {}
          /\ inChanges[j].Key \notin Range(inKeys)
          /\ inChanges[j].Key \in Range(outKeys[1])

\* C8: under NewerWins ResolveConflict returns the record with the strictly
\* later last-updated time, and the local record when the two times are equal.
C8_NewerWinsTieLocal ==
    (resolved # <<>> /\ conflict.Strategy = StrategyNewerWins) =>
        /\ conflict.LocalKey.UpdatedAt > conflict.RemoteKey.UpdatedAt
              => resolved[1] = conflict.LocalKey
        /\ conflict.RemoteKey.UpdatedAt > conflict.LocalKey.UpdatedAt
              => resolved[1] = conflict.RemoteKey
        /\ conflict.LocalKey.UpdatedAt = conflict.RemoteKey.UpdatedAt
              => resolved[1] = conflict.LocalKey

\* C9: under LocalWins ResolveConflict returns the local record and under
\* RemoteWins the remote record, whatever the two last-updated times are.
C9_LocalRemoteWins ==
    resolved # <<>> =>
        /\ conflict.Strategy = StrategyLocalWins
              => resolved[1] = conflict.LocalKey
        /\ conflict.Strategy = StrategyRemoteWins
              => resolved[1] = conflict.RemoteKey

\* C9 witness: LocalWins resolved to a local record older than the remote one
C9_Witness ==
    /\ resolved # <<>>
    /\ conflict.Strategy = StrategyLocalWins
    /\ conflict.LocalKey.UpdatedAt < conflict.RemoteKey.UpdatedAt
    /\ ComputeChecksum(conflict.LocalKey) # ComputeChecksum(conflict.RemoteKey)

\* C10: for each of the four strategies ResolveConflict stores the resolved
\* record in the conflict and returns that record, which is the local or the
\* remote record; under Manual it is the local record.
C10_ResolvedWrittenBack ==
    (resolved # <<>> /\ conflict.Strategy \in
        {StrategyLocalWins, StrategyRemoteWins, StrategyNewerWins, StrategyManual}) =>
        /\ conflict.ResolvedKey = resolved[1]
        /\ resolved[1] \in {conflict.LocalKey, conflict.RemoteKey}
        /\ conflict.Strategy = StrategyManual => resolved[1] = conflict.LocalKey

\* C10 witness: Manual returned the local record although the remote one,
\* a different record, is newer
C10_Witness ==
    /\ resolved # <<>>
    /\ conflict.Strategy = StrategyManual
    /\ conflict.ResolvedKey = conflict.LocalKey
    /\ conflict.LocalKey.UpdatedAt < conflict.RemoteKey.UpdatedAt
    /\ ComputeChecksum(conflict.LocalKey) # ComputeChecksum(conflict.RemoteKey)

\* the remote record of a name, as a set: empty when there is none
RemoteRecords(name) == {k \in Range(remoteKeys) : k.Name = name}

\* the positions of the returned slice holding a conflict for a name
ConflictsFor(name) == {i \in DOMAIN conflicts : conflicts[i].KeyName = name}

\* C11: DetectConflicts returns exactly one ConflictResolution for each name
\* present in both record sets with differing checksums, carrying both full
\* records and the manager's strategy, and none for any other name, whatever
\* the cached local and remote snapshots hold.
C11_ConflictPerDifferingName ==
    phase = "conflicts" =>
        /\ \A n \in Names :
              IF \E l \in LocalRecords(n), r \in RemoteRecords(n) :
                    ComputeChecksum(l) # ComputeChecksum(r)
              THEN \E i \in DOMAIN conflicts :
                      /\ ConflictsFor(n) = {i}
                      /\ conflicts[i].LocalKey \in LocalRecords(n)
                      /\ conflicts[i].RemoteKey \in RemoteRecords(n)
                      /\ conflicts[i].Strategy = strategy
              ELSE ConflictsFor(n) = {}
        /\ \A i \in DOMAIN conflicts : conflicts[i].KeyName \in Names

\* C11 witness: one conflict was returned although the cached snapshots are
\* equal and hold both names; the other name is on both sides, unchanged
C11_Witness ==
    /\ phase = "conflicts"
    /\ Len(conflicts) = 1
    /\ localState = remoteState
    /\ DOMAIN localState = Names
    /\ \E n \in Names :
          /\ ConflictsFor(n) = {}
          /\ LocalRecords(n) # {}
          /\ RemoteRecords(n) # {}

\* the names of the records of a list
NamesOf(keys) == {keys[i].Name : i \in DOMAIN keys}

\* C12: UpdateLocalState(records) leaves a local checksum mapping whose keys
\* are exactly the names of the given records, each mapped to the checksum of
\* that record, and leaves the remote snapshot as it was.
C12_FullRebuild ==
    [][LET records == given'[Len(given')]
       IN  /\ DOMAIN localState' = NamesOf(records)
           /\ \A i \in DOMAIN records :
                 localState'[records[i].Name] = ComputeChecksum(records[i])
           /\ remoteState' = remoteState]_vars

\* C12 witness: the second call was given records that lack a name of the
\* first call and change the record of another, and that name is gone
C12_Witness ==
    /\ Len(given) = 2
    /\ \E n \in NamesOf(given[1]) :
          n \notin NamesOf(given[2]) /\ n \notin DOMAIN localState
    /\ \E n \in NamesOf(given[1]) \cap NamesOf(given[2]) :
          RecordsNamed(given[1], n) # RecordsNamed(given[2], n)
    /\ remoteState # <<>>

\* the fields of a record that identify its content
QualifyingFields ==
    {"Name", "Type", "Fingerprint", "Path", "Comment", "Tags", "CreatedAt"}

\* C13: two records have the same checksum exactly when their qualifying
\* fields are identical: a change of any qualifying field changes the
\* checksum, a change of volatile fields only (the installed flag, the
\* last-updated time, the public key path) does not.
C13_ChecksumOfQualifyingFields ==
    sums # <<>> =>
        (sums[1] = sums[2] <=> \A f \in QualifyingFields : recA[f] = recB[f])

\* C13 witness: two records that differ in the installed flag only got the
\* same checksum
C13_Witness ==
    /\ sums # <<>>
    /\ recA.Installed # recB.Installed
    /\ \A f \in DOMAIN recA \ {"Installed"} : recA[f] = recB[f]
    /\ sums[1] = sums[2]

\* how often an entry occurs in a list
Count(e, es) == Cardinality({i \in DOMAIN es : es[i] = e})

\* a list is ordered newest first
NewestFirst(es) ==
    \A i, j \in DOMAIN es : i < j => es[i].Timestamp >= es[j].Timestamp

\* `kept` holds entries of `all` only, and every entry of `all` it lacks is at
\* most as recent as every entry it holds
KeepsLatest(kept, all) ==
    /\ \A e \in Range(kept) : Count(e, kept) <= Count(e, all)
    /\ \A e \in Range(all) :
          Count(e, kept) < Count(e, all) =>
              \A k \in Range(kept) : e.Timestamp <= k.Timestamp

\* C14: after every successful Add and every successful Save on a ledger with
\* maximum N the ledger holds min(size, N) entries, hence at most N, ordered
\* newest first, and the entries dropped are the oldest ones.
C14_TruncatedNewestFirst ==
    [][(ret'.op \in {"Add", "Save"} /\ ~ret'.err) =>
          LET all == IF ret'.op = "Add" THEN Append(entries, ret'.arg)
                     ELSE entries
          IN  /\ Len(entries') <= maxEntries
              /\ Len(entries') = IF Len(all) > maxEntries THEN maxEntries
                                 ELSE Len(all)
              /\ NewestFirst(entries')
              /\ KeepsLatest(entries', all)]_vars

\* C14 witness: a successful Add on a full ledger whose entries are all newer
\* than the added one: the ledger is still full, sorted and persisted, and the
\* added entry is the one that was dropped
C14_Witness ==
    /\ ret.op = "Add" /\ ~ret.err
    /\ Len(entries) = maxEntries
    /\ NewestFirst(entries)
    /\ \A i \in DOMAIN entries : entries[i].Timestamp > ret.arg.Timestamp
    /\ file = ValidFile(entries)

\* C15: every stored entry has a timestamp and an id, and no two stored
\* entries share an id (Add assigns the ones the caller left unset).
C15_StampedUniqueIDs ==
    \A i \in DOMAIN entries :
        /\ entries[i].Timestamp # 0
        /\ entries[i].ID # ""
        /\ \A j \in DOMAIN entries : j # i => entries[j].ID # entries[i].ID

\* the entries persisted in the file
Persisted == IF file.state = "valid" THEN Range(file.data) ELSE {}

\* C16: an Add whose persistence step failed returned an error and left the
\* entry it was given in the in-memory ledger, and a successful Save that
\* follows it persists that entry.
C16_FailedAddKeepsEntry ==
    [][/\ (ret'.op = "Add" /\ ret'.err) => ret'.arg \in Range(entries')
       /\ (ret.op = "Add" /\ ret.err /\ ret'.op = "Save" /\ ~ret'.err) =>
             EncodeEntry(ret.arg) \in Persisted']_vars

\* C16 as the code has it: the entry is kept unless the cut to the maximum
\* dropped it, an entry no newer than any entry that stayed; the Save that
\* follows persists it under the same condition.
C16_FailedAddKeepsUnlessCut ==
    [][/\ (ret'.op = "Add" /\ ret'.err) =>
             \/ ret'.arg \in Range(entries')
             \/ /\ Len(entries') = maxEntries
                /\ \A k \in Range(entries') : ret'.arg.Timestamp <= k.Timestamp
       /\ (ret.op = "Add" /\ ret.err /\ ret'.op = "Save" /\ ~ret'.err) =>
             \/ EncodeEntry(ret.arg) \in Persisted'
             \/ /\ Len(entries') = maxEntries
                /\ \A k \in Range(entries') : ret.arg.Timestamp <= k.Timestamp]_vars

\* C16 witness: an Add failed at the write, after the sort and the cut: the
\* ledger is full, the entry it was given is in memory and not in the file
C16_Witness ==
    /\ ret.op = "Add" /\ ret.err
    /\ ret.arg \in Range(entries)
    /\ EncodeEntry(ret.arg) \notin Persisted
    /\ Len(entries) = maxEntries
    /\ \E k \in Range(entries) : k.Timestamp < ret.arg.Timestamp

\* C17: nothing guards the file between a ledger's load and its save: when
\* both processes have added their entry and the one that wrote last had
\* loaded the file before the other wrote, the file lacks the other's entry.
C17_LostUpdate ==
    (/\ Len(writers) = 2
     /\ RaceEntry(writers[1]) \notin Range(peers[writers[2]].loaded)) =>
        EncodeEntry(RaceEntry(writers[1])) \notin Persisted

\* C17 witness: both processes loaded, both Adds returned nil, and the file
\* holds the entry of one process only
C17_Witness ==
    /\ \A i \in Instances : peers[i].pc = "added" /\ ~peers[i].err
    /\ \E i, j \in Instances :
          /\ EncodeEntry(RaceEntry(i)) \in Persisted
          /\ EncodeEntry(RaceEntry(j)) \notin Persisted
          /\ RaceEntry(j) \in Range(peers[j].entries)
    /\ Len(file.data) < maxEntries

\* C18: GetRecent(n) for n >= 1 returns min(n, size) entries, the ones with
\* the latest timestamps in the ledger, ordered newest first, and the whole
\* ledger when n exceeds its size.
C18_RecentNewestFirst ==
    (ret.op = "GetRecent" /\ ret.n >= 1) =>
        /\ ~ret.panic
        /\ Len(ret.out) = IF ret.n > Len(entries) THEN Len(entries) ELSE ret.n
        /\ NewestFirst(ret.out)
        /\ KeepsLatest(ret.out, entries)
        /\ ret.n > Len(entries) =>
              \A e \in Range(entries) : Count(e, ret.out) = Count(e, entries)

\* C18 witness: GetRecent returned fewer entries than the ledger holds, and
\* left out a strictly older entry and one as old as the oldest it returned
C18_Witness ==
    /\ ret.op = "GetRecent"
    /\ ret.n >= 1 /\ ret.n < Len(entries)
    /\ Len(ret.out) = ret.n
    /\ \E e \in Range(entries) :
          /\ e \notin Range(ret.out)
          /\ e.Timestamp = ret.out[Len(ret.out)].Timestamp
    /\ \E e \in Range(entries) : e.Timestamp < ret.out[Len(ret.out)].Timestamp

\* C19: GetRecent(n) with n <= 0 returns an empty list and does not fail,
\* whatever the ledger holds.
C19_NonPositiveEmpty ==
    (ret.op = "GetRecent" /\ ret.n <= 0) => (~ret.panic /\ ret.out = <<>>)

\* the sum of a field over the entries of a list, entry value by entry value
RECURSIVE WeightedSum(_, _, _)
WeightedSum(S, es, field) ==
    IF S = {} THEN 0
    ELSE LET e == CHOOSE x \in S : TRUE
         IN  Count(e, es) * e[field] + WeightedSum(S \ {e}, es, field)

\* C20: GetStats reports TotalSyncs = number of entries, SuccessfulSyncs +
\* FailedSyncs = TotalSyncs, TotalChanges and TotalConflicts = the sums of
\* changes applied and conflicts found, PushCount and PullCount = the numbers
\* of entries with that direction, LastSyncTime = the latest entry timestamp,
\* the zero time when the ledger is empty.
C20_StatsAggregate ==
    ret.op = "GetStats" =>
        /\ ret.stats.TotalSyncs = Len(entries)
        /\ ret.stats.SuccessfulSyncs + ret.stats.FailedSyncs = ret.stats.TotalSyncs
        /\ ret.stats.SuccessfulSyncs =
              Len(entries) - Cardinality({i \in DOMAIN entries : ~entries[i].Success})
        /\ ret.stats.TotalChanges =
              WeightedSum(Range(entries), entries, "ChangesApplied")
        /\ ret.stats.TotalConflicts =
              WeightedSum(Range(entries), entries, "ConflictsFound")
        /\ ret.stats.PushCount =
              Cardinality({i \in DOMAIN entries : entries[i].Direction = "push"})
        /\ ret.stats.PullCount =
              Cardinality({i \in DOMAIN entries : entries[i].Direction = "pull"})
        /\ IF entries = <<>> THEN ret.stats.LastSyncTime = 0
           ELSE /\ \E i \in DOMAIN entries :
                      entries[i].Timestamp = ret.stats.LastSyncTime
                /\ \A i \in DOMAIN entries :
                      entries[i].Timestamp <= ret.stats.LastSyncTime

\* C20 witness: GetStats ran on an unsorted ledger holding a successful and a
\* failed sync and an entry that is neither a push nor a pull
C20_Witness ==
    /\ ret.op = "GetStats"
    /\ ret.stats.SuccessfulSyncs >= 1
    /\ ret.stats.FailedSyncs >= 1
    /\ ret.stats.PushCount + ret.stats.PullCount < ret.stats.TotalSyncs
    /\ ret.stats.TotalChanges >= 2
    /\ entries[1].Timestamp < ret.stats.LastSyncTime

\* C21: a successful Clear leaves the in-memory ledger empty and the empty
\* list persisted, so that a ledger constructed on the location afterwards is
\* empty, and a second Clear leaves the ledger and the file as the first did.
C21_ClearIdempotent ==
    [][/\ (ret'.op = "Clear" /\ ~ret'.err) =>
             /\ entries' = <<>>
             /\ file'.state = "valid" /\ file'.data = <<>>
             /\ LoadEntries(file') = <<>>
       /\ (ret.op = "Clear" /\ ~ret.err /\ ret'.op = "Clear" /\ ~ret'.err) =>
             (entries' = entries /\ file' = file)
       /\ (ret.op = "Clear" /\ ~ret.err /\ ret'.op = "NewSyncHistory") =>
             entries' = <<>>]_vars

\* C21 witness: Clear returned nil; nothing is in memory and the file is a
\* readable, empty list
C21_Witness ==
    /\ ret.op = "Clear" /\ ~ret.err
    /\ entries = <<>>
    /\ file.state = "valid" /\ file.data = <<>>

\* C22: constructing a ledger on a file that exists but cannot be read or
\* parsed returns an error to the caller.
C22_LoadErrorSurfaced ==
    (ret.op = "NewSyncHistory" /\ file.state = "corrupt") => ret.err

\* C23: constructing a ledger on a location without a history file returns no
\* error and an empty ledger: GetRecent then returns nothing and GetStats
\* reports zero syncs and the zero LastSyncTime.
C23_MissingFileIsEmpty ==
    [][/\ (ret'.op = "NewSyncHistory" /\ file'.state = "absent") =>
             (~ret'.err /\ entries' = <<>>)
       /\ (ret.op = "NewSyncHistory" /\ file.state = "absent"
             /\ ret'.op = "GetRecent" /\ ret'.n >= 0) =>
                (~ret'.panic /\ ret'.out = <<>>)
       /\ (ret.op = "NewSyncHistory" /\ file.state = "absent"
             /\ ret'.op = "GetStats") =>
                (ret'.stats.TotalSyncs = 0 /\ ret'.stats.LastSyncTime = 0
                    /\ ret'.stats = ZeroStats)]_vars

\* C23 witness: GetStats on a ledger that was constructed without a file
\* reported nothing
C23_Witness ==
    /\ ret.op = "GetStats"
    /\ file.state = "absent"
    /\ entries = <<>>
    /\ ret.stats = ZeroStats

\* C24: in the list DetectChanges returns, every Delete comes after every
\* Create and every Update.
C24_DeletesLast ==
    Detected =>
        \A i, j \in DOMAIN changes :
            (changes[i].Type = ChangeTypeDelete
                /\ changes[j].Type \in {ChangeTypeCreate, ChangeTypeUpdate})
            => j < i

\* C24 witness: the returned list ends with a Delete and holds an Update
\* before it
C24_Witness ==
    /\ Detected
    /\ Len(changes) >= 2
    /\ changes[Len(changes)].Type = ChangeTypeDelete
    /\ changes[1].Type = ChangeTypeUpdate

\* C28: every Create and every Update DetectChanges returns carries a record
\* whose name is the name of the local mapping it was appended for, never the
\* empty record, also when the snapshot was built from another record set
\* than the one passed to DetectChanges.
C28_ChangeCarriesNamedRecord ==
    Detected =>
        \A i \in DOMAIN changes :
            changes[i].Type \in {ChangeTypeCreate, ChangeTypeUpdate} =>
                /\ changes[i].Key # ZeroKey
                /\ changes[i].Key.Name \in DOMAIN localState
                /\ changes[i].Checksum = localState[changes[i].Key.Name]

\* C29: in every state of the ledger (after construction on an existing file,
\* after an Add that saved, after an Add whose save failed) the in-memory
\* list holds at most maxEntries entries.
C29_AtMostMaxEntries ==
    Alive => Len(entries) <= maxEntries

Retained(es) == [e \in Range(es) |-> Count(e, es)]

\* C26: GetRecent, GetByDateRange, GetStats and FormatHistory leave the set of
\* retained entries unchanged and every retained entry with the field values
\* it had: whatever the ledger held after its Adds, it holds after the query.
C26_QueriesKeepEntries ==
    [][ret'.op \in {"GetRecent", "GetByDateRange", "GetStats", "FormatHistory"}
          => /\ Retained(entries') = Retained(entries)
             /\ file' = file]_vars

\* C26 witness: GetByDateRange returned part of a ledger of three different
\* entries, which still holds the three
C26_Witness ==
    /\ ret.op = "GetByDateRange"
    /\ Len(entries) = 3
    /\ Cardinality(Range(entries)) = 3
    /\ Len(ret.out) = 1

\* the four strategies the sync core enumerates
EnumeratedStrategies ==
    {StrategyLocalWins, StrategyRemoteWins, StrategyNewerWins, StrategyManual}

\* C25: a run of the strategy selector on one of the four enumerated names
\* returns no error and constructs a SyncManager with that strategy; a run on
\* any other name returns an error and constructs no SyncManager.
C25_SelectorAcceptsFour ==
    \A i \in DOMAIN runs :
        IF runs[i].strategy \in EnumeratedStrategies
        THEN /\ ~runs[i].err
             /\ Len(runs[i].manager) = 1
             /\ runs[i].manager[1].strategy = runs[i].strategy
        ELSE /\ runs[i].err
             /\ runs[i].manager = <<>>

\* the records the key store's file holds
StoredKeys(f) == load(f).keys

====
